---- MODULE Spec2Model ----
(***************************************************************************)
(* A model of lib/molecules.py: the Dictionary of atom and bond words, the *)
(* Molecule record, the dense-to-sparse conversion of MoleculeDGL._prepare,*)
(* MoleculeDataset.collate, symbol2atom and from_pymol_to_smile.           *)
(*                                                                         *)
(* Python lists and tensors are functions over 0..n-1, so that an index of *)
(* the model is the index of the code.  Each component of the file has its *)
(* own specification over the shared variables; the variables of the other *)
(* components stay at their idle value.                                    *)
(***************************************************************************)
EXTENDS Integers, Sequences, FiniteSets

VARIABLES
    \* Dictionary (lines 19-23)
    word2idx, idx2word, word2num_occurence, idx2num_occurence,
    \* history: the number of add_word(w) calls made so far, per word
    added,
    \* Molecule (lines 62-70)
    num_atom, atom_type, atom_type_pe, bond_type, bag_of_atoms,
    \* history: the number of set_bag_of_atoms calls made so far, and the
    \* Molecule as it was when the last shuffle_indexing was called
    bagCalls, pre,
    \* MoleculeDGL._prepare: the graph built from the molecule
    g,
    \* MoleculeDataset.collate: its argument and its outcome
    samples, batch,
    \* symbol2atom: its argument and its outcome
    aug_symb, atom,
    \* from_pymol_to_smile: the two dictionaries and the RWMol built
    atom_dict, bond_dict, mol,
    \* the operation that produced the state, its argument, its return value
    op, arg, ret

dictVars == <<word2idx, idx2word, word2num_occurence, idx2num_occurence, added>>
molVars == <<num_atom, atom_type, atom_type_pe, bond_type, bag_of_atoms, bagCalls, pre>>
collateVars == <<samples, batch>>
symbolVars == <<aug_symb, atom>>
smileVars == <<atom_dict, bond_dict, mol>>
vars == <<dictVars, molVars, g, collateVars, symbolVars, smileVars, op, arg, ret>>

None == "None"

----------------------------------------------------------------------------
(* Python lists, 0-based *)

EmptyList == [i \in {} |-> 0]

Len0(l) == Cardinality(DOMAIN l)

Append0(l, x) == [i \in 0..Len0(l) |-> IF i < Len0(l) THEN l[i] ELSE x]

Concat0(l, r) ==
    [i \in 0..(Len0(l) + Len0(r) - 1) |-> IF i < Len0(l) THEN l[i] ELSE r[i - Len0(l)]]

Range0(l) == {l[i] : i \in DOMAIN l}

RECURSIVE SumList(_, _)
SumList(l, n) == IF n = 0 THEN 0 ELSE l[n - 1] + SumList(l, n - 1)

Sum0(l) == SumList(l, Len0(l))

----------------------------------------------------------------------------
(* Dictionary *)

Words == {"C", "N", "O"}

\* the most add_word calls of a run
MaxAdds == 6

\* the largest threshold given to get_rid_of_rare_words
MaxMinOccurence == 3

Self ==
    [word2idx |-> word2idx, idx2word |-> idx2word,
     word2num_occurence |-> word2num_occurence,
     idx2num_occurence |-> idx2num_occurence]

\* dict[key] = value
SetItem(d, key, value) ==
    [k \in DOMAIN d \cup {key} |-> IF k = key THEN value ELSE d[k]]

\* add_word with the membership test dropped: every call registers the word anew
add_word_always_new(self, word) ==
    LET l == Append0(self.idx2word, word)
        w2i == SetItem(self.word2idx, word, Len0(l) - 1)
        i2n == Append0(self.idx2num_occurence, 0)
        w2n == SetItem(self.word2num_occurence, word, 0)
    IN  [word2idx |-> w2i, idx2word |-> l,
         word2num_occurence |-> [w2n EXCEPT ![word] = @ + 1],
         idx2num_occurence |-> [i2n EXCEPT ![w2i[word]] = @ + 1]]

\* Dictionary.add_word
add_word(self, word) ==
    LET seen == word \in DOMAIN self.word2idx
        l == IF seen THEN self.idx2word ELSE Append0(self.idx2word, word)
        w2i == IF seen THEN self.word2idx ELSE SetItem(self.word2idx, word, Len0(l) - 1)
        i2n == IF seen THEN self.idx2num_occurence ELSE Append0(self.idx2num_occurence, 0)
        w2n == IF seen THEN self.word2num_occurence
               ELSE SetItem(self.word2num_occurence, word, 0)
    IN  [word2idx |-> w2i, idx2word |-> l,
         word2num_occurence |-> [w2n EXCEPT ![word] = @ + 1],
         idx2num_occurence |-> [i2n EXCEPT ![w2i[word]] = @ + 1]]

\* [ word for word in self.idx2word if self.word2num_occurence[word] >= min_num_occurence ]
RECURSIVE FrequentWords(_, _, _, _)
FrequentWords(self, min_num_occurence, i, acc) ==
    IF i >= Len0(self.idx2word) THEN acc
    ELSE LET word == self.idx2word[i]
         IN  FrequentWords(self, min_num_occurence, i + 1,
                 IF self.word2num_occurence[word] >= min_num_occurence
                 THEN Append0(acc, word) ELSE acc)

\* the same scan with a strict comparison
RECURSIVE FrequentWordsStrict(_, _, _, _)
FrequentWordsStrict(self, min_num_occurence, i, acc) ==
    IF i >= Len0(self.idx2word) THEN acc
    ELSE LET word == self.idx2word[i]
         IN  FrequentWordsStrict(self, min_num_occurence, i + 1,
                 IF self.word2num_occurence[word] > min_num_occurence
                 THEN Append0(acc, word) ELSE acc)

\* the scan of a loop that removes from the list it iterates over: the word
\* after a removed one is never looked at
RECURSIVE FrequentWordsSkipping(_, _, _, _)
FrequentWordsSkipping(self, min_num_occurence, i, acc) ==
    IF i >= Len0(self.idx2word) THEN acc
    ELSE LET word == self.idx2word[i]
         IN  IF self.word2num_occurence[word] >= min_num_occurence
             THEN FrequentWordsSkipping(self, min_num_occurence, i + 1, Append0(acc, word))
             ELSE IF i + 1 < Len0(self.idx2word)
                  THEN FrequentWordsSkipping(self, min_num_occurence, i + 2,
                           Append0(acc, self.idx2word[i + 1]))
                  ELSE acc

\* lines 37-39: the three structures rebuilt from new_idx2word
Rebuilt(self, new_idx2word) ==
    [word2idx |-> [word \in Range0(new_idx2word) |->
                      CHOOSE idx \in DOMAIN new_idx2word :
                          /\ new_idx2word[idx] = word
                          /\ \A j \in DOMAIN new_idx2word : new_idx2word[j] = word => j <= idx],
     idx2word |-> new_idx2word,
     word2num_occurence |-> [word \in Range0(new_idx2word) |-> self.word2num_occurence[word]],
     idx2num_occurence |-> [i \in DOMAIN new_idx2word |->
                               self.word2num_occurence[new_idx2word[i]]]]

get_rid_strict(self, min_num_occurence) ==
    Rebuilt(self, FrequentWordsStrict(self, min_num_occurence, 0, EmptyList))

get_rid_skipping(self, min_num_occurence) ==
    Rebuilt(self, FrequentWordsSkipping(self, min_num_occurence, 0, EmptyList))

\* Dictionary.get_rid_of_rare_words
get_rid_of_rare_words(self, min_num_occurence) ==
    Rebuilt(self, FrequentWords(self, min_num_occurence, 0, EmptyList))

SetDictionary(d) ==
    /\ word2idx' = d.word2idx
    /\ idx2word' = d.idx2word
    /\ word2num_occurence' = d.word2num_occurence
    /\ idx2num_occurence' = d.idx2num_occurence

DictIdle ==
    /\ word2idx = EmptyList
    /\ idx2word = EmptyList
    /\ word2num_occurence = EmptyList
    /\ idx2num_occurence = EmptyList
    /\ added = [w \in Words |-> 0]

MolIdle ==
    /\ num_atom = 0
    /\ atom_type = EmptyList
    /\ atom_type_pe = EmptyList
    /\ bond_type = EmptyList
    /\ bag_of_atoms = EmptyList
    /\ bagCalls = 0
    /\ pre = None

RestIdle ==
    /\ op = "init"
    /\ arg = None
    /\ ret = None

GraphIdle == g = None

CollateIdle == samples = EmptyList /\ batch = None

SymbolIdle == aug_symb = EmptyList /\ atom = None

SmileIdle == atom_dict = EmptyList /\ bond_dict = EmptyList /\ mol = None

TotalAdded == added["C"] + added["N"] + added["O"]

DictInit ==
    /\ DictIdle /\ MolIdle /\ GraphIdle /\ CollateIdle /\ SymbolIdle /\ SmileIdle
    /\ RestIdle

notDict == <<molVars, g, collateVars, symbolVars, smileVars, ret>>

AddWord(word) ==
    /\ TotalAdded < MaxAdds
    /\ SetDictionary(add_word(Self, word))
    /\ added' = [added EXCEPT ![word] = @ + 1]
    /\ op' = "add_word"
    /\ arg' = word
    /\ UNCHANGED notDict

GetRidOfRareWords(min_num_occurence) ==
    /\ SetDictionary(get_rid_of_rare_words(Self, min_num_occurence))
    /\ op' = "get_rid_of_rare_words"
    /\ arg' = min_num_occurence
    /\ UNCHANGED <<added, notDict>>

NextAdd == \E word \in Words : AddWord(word)

NextDict ==
    \/ \E word \in Words : AddWord(word)
    \/ \E min_num_occurence \in 0..MaxMinOccurence : GetRidOfRareWords(min_num_occurence)

\* a Dictionary that only receives add_word calls
SpecAdd == DictInit /\ [][NextAdd]_vars

\* a Dictionary that receives add_word and get_rid_of_rare_words calls
SpecDict == DictInit /\ [][NextDict]_vars

Known == DOMAIN word2idx

\* C1: after any sequence of add_word calls on an empty Dictionary, every word
\* ever added is known, idx2word[word2idx[w]] = w, and both occurrence counters
\* of w equal the number of add_word(w) calls made so far.
C1_AddWordCounts ==
    \A w \in Words :
        added[w] > 0 =>
            /\ w \in Known
            /\ word2idx[w] \in DOMAIN idx2word
            /\ idx2word[word2idx[w]] = w
            /\ word2num_occurence[w] = added[w]
            /\ idx2num_occurence[word2idx[w]] = added[w]

\* a word added twice after another word was added, and a third one once
C1_Witness ==
    /\ op = "add_word"
    /\ \E w \in Words : added[w] >= 2 /\ w \in Known /\ word2idx[w] = 1
    /\ Len0(idx2word) = 3

DictInvariant(d) ==
    /\ \A w \in DOMAIN d.word2idx :
           d.word2idx[w] \in DOMAIN d.idx2word /\ d.idx2word[d.word2idx[w]] = w
    /\ \A i \in DOMAIN d.idx2word :
           /\ d.idx2word[i] \in DOMAIN d.word2num_occurence
           /\ i \in DOMAIN d.idx2num_occurence
           /\ d.idx2num_occurence[i] = d.word2num_occurence[d.idx2word[i]]

Frequent(min_num_occurence) == {w \in Known : word2num_occurence[w] >= min_num_occurence}

\* C2: whatever add_word and get_rid_of_rare_words calls came before,
\* get_rid_of_rare_words(m) leaves exactly the words counted at least m times,
\* in their previous relative order, with the ids 0..k-1 in that order and the
\* counts of the kept words unchanged in both counters; idx2word[word2idx[w]] = w
\* and idx2num_occurence[i] = word2num_occurence[idx2word[i]] hold afterwards.
C2_PruneKeepsFrequent ==
    [][op' = "get_rid_of_rare_words" =>
        LET kept == Frequent(arg')
        IN  /\ DOMAIN word2idx' = kept
            /\ DOMAIN word2num_occurence' = kept
            /\ DOMAIN idx2word' = 0..(Cardinality(kept) - 1)
            /\ DOMAIN idx2num_occurence' = 0..(Cardinality(kept) - 1)
            /\ \A u, v \in kept :
                   word2idx[u] < word2idx[v] => word2idx'[u] < word2idx'[v]
            /\ \A w \in kept :
                   /\ word2num_occurence'[w] = word2num_occurence[w]
                   /\ idx2num_occurence'[word2idx'[w]] = idx2num_occurence[word2idx[w]]
            /\ DictInvariant(Self)'
    ]_vars

\* a prune that dropped a word, kept two, and was followed from adds after an
\* earlier prune
C2_Witness ==
    /\ op = "get_rid_of_rare_words"
    /\ arg >= 2
    /\ Len0(idx2word) = 2
    /\ \E w \in Words : added[w] > 0 /\ w \notin Known
    /\ \E w \in Known : word2num_occurence[w] < added[w]

\* C3: pruning is idempotent: in the state a get_rid_of_rare_words(m) call
\* leaves, a second call with the same m changes none of the four structures.
C3_PruneIdempotent ==
    op = "get_rid_of_rare_words" => get_rid_of_rare_words(Self, arg) = Self

\* a prune with a threshold that removed a word and kept another
C3_Witness ==
    /\ op = "get_rid_of_rare_words"
    /\ arg >= 2
    /\ Len0(idx2word) >= 1
    /\ \E w \in Words : added[w] > 0 /\ w \notin Known

----------------------------------------------------------------------------
(* Molecule *)

\* the most atoms of a molecule
MaxAtom == 2

\* the most nonzero cells of a molecule's bond matrix
MaxNonzero == 2

\* the most set_bag_of_atoms calls of a run
MaxBagCalls == 2

\* the second argument of Molecule.__init__
num_atom_type == 2

\* bond types are integers between 0 and num_bond_type-1
num_bond_type == 3

Atoms(n) == 0..(n - 1)

\* torch.zeros(n)
Zeros(n) == [i \in Atoms(n) |-> 0]

\* the values torch.randperm(n) can return
randperm(n) ==
    {idx \in [Atoms(n) -> Atoms(n)] : \A a, b \in Atoms(n) : idx[a] = idx[b] => a = b}

NonzeroCells(n, adj) == {c \in Atoms(n) \X Atoms(n) : adj[c[1]][c[2]] # 0}

\* the bond matrices of the molecules of a run
BondMatrices(n) ==
    {adj \in [Atoms(n) -> [Atoms(n) -> 0..(num_bond_type - 1)]] :
        Cardinality(NonzeroCells(n, adj)) <= MaxNonzero}

\* a Molecule as constructed, with atom_type and bond_type filled in by the loader
MoleculeLoaded ==
    /\ num_atom \in 0..MaxAtom
    /\ atom_type \in [Atoms(num_atom) -> 0..(num_atom_type - 1)]
    /\ atom_type_pe = Zeros(num_atom)
    /\ bond_type \in BondMatrices(num_atom)
    /\ bag_of_atoms = Zeros(num_atom_type)
    /\ bagCalls = 0
    /\ pre = None

\* for tp in self.atom_type: self.bag_of_atoms[tp.item()] += 1
RECURSIVE CountAtoms(_, _, _, _)
CountAtoms(types, n, i, bag) ==
    IF i >= n THEN bag
    ELSE CountAtoms(types, n, i + 1, [bag EXCEPT ![types[i]] = @ + 1])

\* Molecule.set_bag_of_atoms
set_bag_of_atoms(types, n, bag) == CountAtoms(types, n, 0, bag)

\* lines 76-82: the scan that ranks each atom among the atoms of its type
RECURSIVE RankAtoms(_, _, _, _, _)
RankAtoms(types, n, idx, histogram, pe) ==
    IF idx >= n THEN pe
    ELSE LET tpp == types[idx]
             h == IF tpp \notin DOMAIN histogram THEN SetItem(histogram, tpp, 0)
                  ELSE [histogram EXCEPT ![tpp] = @ + 1]
         IN  RankAtoms(types, n, idx + 1, h, [pe EXCEPT ![idx] = h[tpp]])

\* Molecule.set_atom_type_pe
set_atom_type_pe(types, n, pe) == RankAtoms(types, n, 0, EmptyList, pe)

\* tensor[idx] of a 1-d or 2-d tensor: entry (row) a of the result is entry idx[a]
IndexRows(tensor, idx) == [a \in DOMAIN idx |-> tensor[idx[a]]]

\* tensor[:,idx]: column b of the result is column idx[b]
IndexColumns(tensor, idx) == [a \in DOMAIN tensor |-> [b \in DOMAIN idx |-> tensor[a][idx[b]]]]

\* the bond matrix with its rows permuted and its columns left in place
shuffle_rows_only(adj, idx) == IndexRows(adj, idx)

\* line 87: self.bond_type[idx][:,idx]
shuffle_bonds(adj, idx) == IndexColumns(IndexRows(adj, idx), idx)

\* the fields of the Molecule that the operations read and write
Molecule ==
    [num_atom |-> num_atom, atom_type |-> atom_type, atom_type_pe |-> atom_type_pe,
     bond_type |-> bond_type, bag_of_atoms |-> bag_of_atoms]

notMol == <<word2idx, idx2word, word2num_occurence, idx2num_occurence, added,
            g, collateVars, symbolVars, smileVars>>

SetBagOfAtoms ==
    /\ bagCalls < MaxBagCalls
    /\ bag_of_atoms' = set_bag_of_atoms(atom_type, num_atom, bag_of_atoms)
    /\ bagCalls' = bagCalls + 1
    /\ op' = "set_bag_of_atoms"
    /\ arg' = None
    /\ ret' = None
    /\ pre' = None
    /\ UNCHANGED <<num_atom, atom_type, atom_type_pe, bond_type, notMol>>

SetAtomTypePe ==
    /\ atom_type_pe' = set_atom_type_pe(atom_type, num_atom, atom_type_pe)
    /\ op' = "set_atom_type_pe"
    /\ arg' = None
    /\ ret' = None
    /\ pre' = None
    /\ UNCHANGED <<num_atom, atom_type, bond_type, bag_of_atoms, bagCalls, notMol>>

ShuffleIndexing ==
    \E idx \in randperm(num_atom) :
        /\ atom_type' = IndexRows(atom_type, idx)
        /\ atom_type_pe' = IndexRows(atom_type_pe, idx)
        /\ bond_type' = shuffle_bonds(bond_type, idx)
        /\ op' = "shuffle_indexing"
        /\ arg' = None
        /\ ret' = idx
        /\ pre' = Molecule
        /\ UNCHANGED <<num_atom, bag_of_atoms, bagCalls, notMol>>

MolInit ==
    /\ DictIdle /\ MoleculeLoaded /\ GraphIdle /\ CollateIdle /\ SymbolIdle /\ SmileIdle
    /\ RestIdle

NextMol == SetBagOfAtoms \/ SetAtomTypePe \/ ShuffleIndexing

\* a Molecule that receives set_bag_of_atoms, set_atom_type_pe and shuffle_indexing calls
SpecMol == MolInit /\ [][NextMol]_vars

\* a Molecule of the data set: loaded, and its bag_of_atoms set
ShuffleInit ==
    /\ DictIdle /\ GraphIdle /\ CollateIdle /\ SymbolIdle /\ SmileIdle /\ RestIdle
    /\ num_atom \in 0..MaxAtom
    /\ atom_type \in [Atoms(num_atom) -> 0..(num_atom_type - 1)]
    /\ atom_type_pe = Zeros(num_atom)
    /\ bond_type \in BondMatrices(num_atom)
    /\ bag_of_atoms = set_bag_of_atoms(atom_type, num_atom, Zeros(num_atom_type))
    /\ bagCalls = 1
    /\ pre = None

NextShuffle == SetAtomTypePe \/ ShuffleIndexing

\* a Molecule of the data set that receives set_atom_type_pe and shuffle_indexing calls
SpecShuffle == ShuffleInit /\ [][NextShuffle]_vars

TypePairs == {p \in SUBSET (0..(num_atom_type - 1)) : Cardinality(p) \in {1, 2}}

\* how many cells (a, b) of the bond matrix join atoms of the types in pair with
\* the bond value bond
BondBag(types, adj, n) ==
    [k \in TypePairs \X (0..(num_bond_type - 1)) |->
        Cardinality({c \in Atoms(n) \X Atoms(n) :
            {types[c[1]], types[c[2]]} = k[1] /\ adj[c[1]][c[2]] = k[2]})]

\* C7: shuffle_indexing returns the permutation idx it drew and leaves
\* atom_type'[a] = atom_type[idx[a]], atom_type_pe'[a] = atom_type_pe[idx[a]] and
\* bond_type'[a][b] = bond_type[idx[a]][idx[b]]; the multiset of (unordered
\* atom-type pair, bond value) is the same before and after, and num_atom and
\* bag_of_atoms are unchanged.
C7_ShuffleJoint ==
    op = "shuffle_indexing" =>
        LET idx == ret
            n == pre.num_atom
        IN  /\ idx \in randperm(n)
            /\ DOMAIN atom_type = Atoms(n)
            /\ DOMAIN atom_type_pe = Atoms(n)
            /\ DOMAIN bond_type = Atoms(n)
            /\ \A a \in Atoms(n) :
                   /\ atom_type[a] = pre.atom_type[idx[a]]
                   /\ atom_type_pe[a] = pre.atom_type_pe[idx[a]]
                   /\ DOMAIN bond_type[a] = Atoms(n)
                   /\ \A b \in Atoms(n) : bond_type[a][b] = pre.bond_type[idx[a]][idx[b]]
            /\ BondBag(atom_type, bond_type, num_atom)
                   = BondBag(pre.atom_type, pre.bond_type, n)
            /\ num_atom = n
            /\ bag_of_atoms = pre.bag_of_atoms

\* a shuffle by a permutation that moves atoms, of a molecule with atoms of two
\* types and a bond matrix that is not symmetric
C7_Witness ==
    /\ op = "shuffle_indexing"
    /\ num_atom = MaxAtom
    /\ \E a \in Atoms(num_atom) : ret[a] # a
    /\ \E a, b \in Atoms(num_atom) :
           /\ bond_type[a][b] # bond_type[b][a]
           /\ atom_type[a] # atom_type[b]

\* C8: once set_bag_of_atoms has been called, sum(bag_of_atoms) = num_atom and
\* bag_of_atoms[t] is the number of atoms of type t, whatever Molecule operations
\* follow.
C8_BagSumsToNumAtom ==
    bagCalls >= 1 =>
        /\ Sum0(bag_of_atoms) = num_atom
        /\ \A t \in 0..(num_atom_type - 1) :
               bag_of_atoms[t] = Cardinality({a \in Atoms(num_atom) : atom_type[a] = t})

----------------------------------------------------------------------------
(* MoleculeDGL._prepare *)

\* (adj != 0).nonzero() without the cells of the diagonal
RECURSIVE nonzero_off_diagonal(_, _, _, _)
nonzero_off_diagonal(adj, n, k, acc) ==
    IF k >= n * n THEN acc
    ELSE LET i == k \div n
             j == k % n
         IN  nonzero_off_diagonal(adj, n, k + 1,
                 IF adj[i][j] # 0 /\ i # j THEN Append0(acc, <<i, j>>) ELSE acc)

\* (adj != 0).nonzero(): the indices of the nonzero cells, in row-major order,
\* scanned from the flat index k on
RECURSIVE nonzero(_, _, _, _)
nonzero(adj, n, k, acc) ==
    IF k >= n * n THEN acc
    ELSE LET i == k \div n
             j == k % n
         IN  nonzero(adj, n, k + 1, IF adj[i][j] # 0 THEN Append0(acc, <<i, j>>) ELSE acc)

\* lines 106-113: the graph of one molecule
prepare_graph(types, adj, n) ==
    LET node_features == types
        edge_list == nonzero(adj, n, 0, EmptyList)
        edge_features == [e \in DOMAIN edge_list |-> adj[edge_list[e][1]][edge_list[e][2]]]
    IN  [num_nodes |-> n,
         src |-> [e \in DOMAIN edge_list |-> edge_list[e][1]],
         dst |-> [e \in DOMAIN edge_list |-> edge_list[e][2]],
         ndata |-> node_features,
         edata |-> edge_features]

Prepare ==
    /\ op = "init"
    /\ g' = prepare_graph(atom_type, bond_type, num_atom)
    /\ op' = "_prepare"
    /\ UNCHANGED <<dictVars, molVars, collateVars, symbolVars, smileVars, arg, ret>>

NextGraph == Prepare

\* one molecule of the data set, converted by _prepare
SpecGraph == MolInit /\ [][NextGraph]_vars

\* C4: _prepare emits one directed edge (i, j) per nonzero cell of bond_type, in
\* row-major order, the diagonal and both triangles included; the number of
\* edges is the number of nonzero cells, the k-th edge feature is bond_type at
\* the k-th edge, the node features are atom_type and the graph has num_atom nodes.
C4_EdgesAreNonzeroCells ==
    op = "_prepare" =>
        LET edges == DOMAIN g.src
            cell(e) == <<g.src[e], g.dst[e]>>
        IN  /\ edges = 0..(Cardinality(NonzeroCells(num_atom, bond_type)) - 1)
            /\ DOMAIN g.dst = edges
            /\ DOMAIN g.edata = edges
            /\ {cell(e) : e \in edges} = NonzeroCells(num_atom, bond_type)
            /\ \A e \in edges : g.edata[e] = bond_type[g.src[e]][g.dst[e]]
            /\ \A e, f \in edges :
                   e < f => g.src[e] * num_atom + g.dst[e] < g.src[f] * num_atom + g.dst[f]
            /\ g.ndata = atom_type
            /\ g.num_nodes = num_atom

\* a graph with a self-loop and a second edge
C4_Witness ==
    /\ op = "_prepare"
    /\ Len0(g.src) = 2
    /\ \E e \in DOMAIN g.src : g.src[e] = g.dst[e]
    /\ \E e \in DOMAIN g.src : g.src[e] > g.dst[e]

----------------------------------------------------------------------------
(* MoleculeDataset.collate *)

\* the most samples of a batch
MaxSamples == 2

\* the most nodes, and the most edges, of a graph of a batch
MaxSize == 2

Labels == {0, 1}

Graphs ==
    {gr \in [num_nodes : 0..MaxSize, num_edges : 0..MaxSize] :
        gr.num_nodes = 0 => gr.num_edges = 0}

SampleLists ==
    UNION {[0..(n - 1) -> [graph : Graphs, label : Labels]] : n \in 0..MaxSamples}

\* a / b of two Python floats, where a division by zero gives inf
FloatDivInf(a, b) == IF b = 0 THEN [inf |-> TRUE] ELSE [num |-> a, den |-> b]

\* a / b of two Python floats
FloatDiv(a, b) == IF b = 0 THEN [raised |-> "ZeroDivisionError"] ELSE [num |-> a, den |-> b]

\* torch.FloatTensor(size,1).fill_(value)
Fill(size, value) == [i \in 0..(size - 1) |-> value]

\* tensor.sqrt()
Sqrt(tensor) == [i \in DOMAIN tensor |-> [sqrt |-> tensor[i]]]

\* torch.cat of the first n tensors of a list
RECURSIVE Cat(_, _)
Cat(tensors, n) == IF n = 0 THEN EmptyList ELSE Concat0(Cat(tensors, n - 1), tensors[n - 1])

\* every graph weighted by the size of the whole batch
tab_norm_of_batch(tab_sizes) ==
    [i \in DOMAIN tab_sizes |-> Fill(tab_sizes[i], FloatDiv(1, Sum0(tab_sizes)))]

\* lines 143 and 146: one tensor of size entries 1./float(size) per graph
tab_norm(tab_sizes) ==
    [i \in DOMAIN tab_sizes |-> Fill(tab_sizes[i], FloatDiv(1, tab_sizes[i]))]

\* the division of line 143 or 146 raises for some graph
Raises(tab_sizes) == \E i \in DOMAIN tab_sizes : "raised" \in DOMAIN FloatDiv(1, tab_sizes[i])

\* dgl.batch
dgl_batch(graphs) ==
    LET nodes == [i \in DOMAIN graphs |-> graphs[i].num_nodes]
        edges == [i \in DOMAIN graphs |-> graphs[i].num_edges]
    IN  [num_nodes |-> Sum0(nodes), num_edges |-> Sum0(edges),
         batch_num_nodes |-> nodes, batch_num_edges |-> edges]

\* MoleculeDataset.collate
collate(smpls) ==
    IF Len0(smpls) = 0 THEN [status |-> "ValueError"]
    ELSE LET graphs == [i \in DOMAIN smpls |-> smpls[i].graph]
             labels == [i \in DOMAIN smpls |-> smpls[i].label]
             tab_sizes_n == [i \in DOMAIN graphs |-> graphs[i].num_nodes]
             tab_sizes_e == [i \in DOMAIN graphs |-> graphs[i].num_edges]
         IN  IF Raises(tab_sizes_n) \/ Raises(tab_sizes_e)
             THEN [status |-> "ZeroDivisionError"]
             ELSE [status |-> "ok",
                   batch_graphs |-> dgl_batch(graphs),
                   batch_labels |-> labels,
                   batch_norm_n |-> Sqrt(Cat(tab_norm(tab_sizes_n), Len0(graphs))),
                   batch_norm_e |-> Sqrt(Cat(tab_norm(tab_sizes_e), Len0(graphs)))]

CollateInit ==
    /\ DictIdle /\ MolIdle /\ GraphIdle /\ SymbolIdle /\ SmileIdle /\ RestIdle
    /\ samples \in SampleLists
    /\ batch = None

Collate ==
    /\ op = "init"
    /\ batch' = collate(samples)
    /\ op' = "collate"
    /\ UNCHANGED <<dictVars, molVars, g, samples, symbolVars, smileVars, arg, ret>>

NextCollate == Collate

SpecCollate == CollateInit /\ [][NextCollate]_vars

\* the number of rows of the graphs before graph i
RECURSIVE Offset(_, _)
Offset(sizes, i) == IF i = 0 THEN 0 ELSE sizes[i - 1] + Offset(sizes, i - 1)

NodeSizes == [i \in DOMAIN samples |-> samples[i].graph.num_nodes]

EdgeSizes == [i \in DOMAIN samples |-> samples[i].graph.num_edges]

\* the rows of graph i are one block at its offset, each sqrt(1/s), s its size
BlocksOf(norm, sizes) ==
    /\ DOMAIN norm = 0..(Sum0(sizes) - 1)
    /\ \A i \in DOMAIN sizes : \A k \in 0..(sizes[i] - 1) :
           norm[Offset(sizes, i) + k] = [sqrt |-> [num |-> 1, den |-> sizes[i]]]

HasEmptyGraph == \E i \in DOMAIN samples : NodeSizes[i] = 0 \/ EdgeSizes[i] = 0

\* C5: for a non-empty list of samples whose graphs all have a node and an edge,
\* collate returns a node (edge) normalization vector as long as the batch has
\* nodes (edges), where the entries of the g-th graph are one block in input
\* order, each sqrt(1/s) with s the graph's node (edge) count, and the labels in
\* input order.
C5_NormalizationBlocks ==
    (op = "collate" /\ Len0(samples) >= 1 /\ ~HasEmptyGraph) =>
        /\ batch.status = "ok"
        /\ BlocksOf(batch.batch_norm_n, NodeSizes)
        /\ BlocksOf(batch.batch_norm_e, EdgeSizes)
        /\ Len0(batch.batch_norm_n) = batch.batch_graphs.num_nodes
        /\ Len0(batch.batch_norm_e) = batch.batch_graphs.num_edges
        /\ DOMAIN batch.batch_labels = DOMAIN samples
        /\ \A i \in DOMAIN samples : batch.batch_labels[i] = samples[i].label

\* two graphs of different node counts and different edge counts, different labels
C5_Witness ==
    /\ op = "collate"
    /\ batch.status = "ok"
    /\ Len0(samples) = 2
    /\ NodeSizes[0] # NodeSizes[1]
    /\ EdgeSizes[0] # EdgeSizes[1]
    /\ NodeSizes[0] # EdgeSizes[0]
    /\ samples[0].label # samples[1].label

----------------------------------------------------------------------------
(* symbol2atom *)

\* the most characters of an augmented symbol drawn from Alphabet
MaxLen == 4

Alphabet == {"N", "+", "-", "H", "1", "2", "3", " "}

\* a Python string, as the list of its characters
Chars(t) == [i \in 0..(Len(t) - 1) |-> t[i + 1]]

Examples ==
    {Chars(<<"C">>),
     Chars(<<"N", " ", "+", " ", "H", "1">>),
     Chars(<<"N", " ", "-", " ", "H", "2">>),
     Chars(<<"O", " ", "H", "3", " ", "+">>),
     Chars(<<"C", " ", "H", "3", " ", "H", "1", " ", "-", " ", "+">>),
     Chars(<<"C", " ", "X", " ", "H", "4">>)}

AugmentedSymbols ==
    UNION {[0..(n - 1) -> Alphabet] : n \in 0..MaxLen} \cup Examples

Whitespace == {" "}

\* the element symbols Chem.Atom accepts, among the first tokens of a run
Elements == {"C", "N", "O", "H"}

\* str.split(): the maximal runs of characters that are not whitespace
RECURSIVE split(_, _, _, _)
split(str, i, token, acc) ==
    IF i >= Len0(str) THEN (IF token = "" THEN acc ELSE Append0(acc, token))
    ELSE IF str[i] \in Whitespace
         THEN split(str, i + 1, "", IF token = "" THEN acc ELSE Append0(acc, token))
         ELSE split(str, i + 1, token \o str[i], acc)

\* Chem.Atom(symbol), and the two setters
ChemAtom(symbol) == [symbol |-> symbol, formal_charge |-> 0, num_explicit_hs |-> 0]

SetFormalCharge(at, charge) == [at EXCEPT !.formal_charge = charge]

SetNumExplicitHs(at, hs) == [at EXCEPT !.num_explicit_hs = hs]

\* lines 172-181 with the two charges exchanged
decorate_swapped(at, mylist) ==
    LET a1 == IF "+" \in Range0(mylist) THEN SetFormalCharge(at, -1) ELSE at
        a2 == IF "-" \in Range0(mylist) THEN SetFormalCharge(a1, 1) ELSE a1
        a3 == IF "H1" \in Range0(mylist) THEN SetNumExplicitHs(a2, 1) ELSE a2
        a4 == IF "H2" \in Range0(mylist) THEN SetNumExplicitHs(a3, 2) ELSE a3
    IN  IF "H3" \in Range0(mylist) THEN SetNumExplicitHs(a4, 3) ELSE a4

\* lines 172-181: the five tests, each on the whole token list, in order
decorate(at, mylist) ==
    LET a1 == IF "+" \in Range0(mylist) THEN SetFormalCharge(at, 1) ELSE at
        a2 == IF "-" \in Range0(mylist) THEN SetFormalCharge(a1, -1) ELSE a1
        a3 == IF "H1" \in Range0(mylist) THEN SetNumExplicitHs(a2, 1) ELSE a2
        a4 == IF "H2" \in Range0(mylist) THEN SetNumExplicitHs(a3, 2) ELSE a3
    IN  IF "H3" \in Range0(mylist) THEN SetNumExplicitHs(a4, 3) ELSE a4

\* symbol2atom: mylist[0] of an empty list raises, and so does Chem.Atom of a
\* string that is no element
symbol2atom(str) ==
    LET mylist == split(str, 0, "", EmptyList)
    IN  IF Len0(mylist) = 0 THEN [status |-> "IndexError"]
        ELSE IF mylist[0] \notin Elements THEN [status |-> "RuntimeError"]
        ELSE [status |-> "ok", atom |-> decorate(ChemAtom(mylist[0]), mylist)]

SymbolInit ==
    /\ DictIdle /\ MolIdle /\ GraphIdle /\ CollateIdle /\ SmileIdle /\ RestIdle
    /\ aug_symb \in AugmentedSymbols
    /\ atom = None

Symbol2Atom ==
    /\ op = "init"
    /\ atom' = symbol2atom(aug_symb)
    /\ op' = "symbol2atom"
    /\ UNCHANGED <<dictVars, molVars, g, collateVars, aug_symb, smileVars, arg, ret>>

NextSymbol == Symbol2Atom

SpecSymbol == SymbolInit /\ [][NextSymbol]_vars

Tokens == Range0(split(aug_symb, 0, "", EmptyList))

FirstToken == split(aug_symb, 0, "", EmptyList)[0]

\* C10: for an augmented symbol whose first token is an element, symbol2atom
\* returns an atom of that element; its formal charge is in {-1, 0, 1}, +1 only
\* with a "+" token and -1 only with a "-" token, and not 0 with either; its
\* explicit hydrogen count is in 0..3, k > 0 only with a token "Hk", and not 0
\* with any of them; no other token raises an error.  "C" gives (C, 0, 0) and
\* "N + H1" gives (N, +1, 1).
C10_SymbolDecoded ==
    (op = "symbol2atom" /\ Tokens # {} /\ FirstToken \in Elements) =>
        /\ atom.status = "ok"
        /\ atom.atom.symbol = FirstToken
        /\ atom.atom.formal_charge \in {-1, 0, 1}
        /\ atom.atom.formal_charge = 1 => "+" \in Tokens
        /\ atom.atom.formal_charge = -1 => "-" \in Tokens
        /\ atom.atom.formal_charge = 0 => Tokens \cap {"+", "-"} = {}
        /\ ("+" \in Tokens /\ "-" \notin Tokens) => atom.atom.formal_charge = 1
        /\ atom.atom.num_explicit_hs \in 0..3
        /\ \A k \in 1..3 : atom.atom.num_explicit_hs = k =>
               (IF k = 1 THEN "H1" ELSE IF k = 2 THEN "H2" ELSE "H3") \in Tokens
        /\ atom.atom.num_explicit_hs = 0 => Tokens \cap {"H1", "H2", "H3"} = {}
        /\ aug_symb = Chars(<<"C">>) =>
               atom.atom = [symbol |-> "C", formal_charge |-> 0, num_explicit_hs |-> 0]
        /\ aug_symb = Chars(<<"N", " ", "+", " ", "H", "1">>) =>
               atom.atom = [symbol |-> "N", formal_charge |-> 1, num_explicit_hs |-> 1]

\* "N + H1" decoded
C10_Witness ==
    /\ op = "symbol2atom"
    /\ aug_symb = Chars(<<"N", " ", "+", " ", "H", "1">>)
    /\ atom.status = "ok"
    /\ atom.atom.formal_charge = 1
    /\ atom.atom.num_explicit_hs = 1

----------------------------------------------------------------------------
(* from_pymol_to_smile *)

\* atom_dict.idx2word of the runs: the last one does not cover atom type 1
AtomDicts ==
    {Chars(<<Chars(<<"C">>), Chars(<<"N">>)>>),
     Chars(<<Chars(<<"N", " ", "+", " ", "H", "1">>), Chars(<<"O", " ", "-">>)>>),
     Chars(<<Chars(<<"C">>)>>)}

\* bond_dict.idx2word of the runs: the last one does not cover bond type 2
BondDicts ==
    {Chars(<<"NONE", "SINGLE", "DOUBLE">>),
     Chars(<<"NONE", "TRIPLE", "AROMATIC">>),
     Chars(<<"SINGLE", "NONE", "QUADRUPLE">>),
     Chars(<<"DATIVE", "DOUBLE", "NONE">>),
     Chars(<<"NONE", "SINGLE">>)}

BondNames == {"SINGLE", "DOUBLE", "TRIPLE", "AROMATIC"}

\* lines 188-190: one atom per entry of atom_type
add_atoms(types, n, words) == [a \in Atoms(n) |-> symbol2atom(words[types[a]]).atom]

\* the bond loop run over every pair i # j
RECURSIVE add_bonds_both_triangles(_, _, _, _, _)
add_bonds_both_triangles(adj, n, names, k, bonds) ==
    IF k >= n * n THEN bonds
    ELSE LET i == k \div n
             j == k % n
         IN  add_bonds_both_triangles(adj, n, names, k + 1,
                 IF i # j /\ names[adj[i][j]] \in BondNames
                 THEN Append0(bonds, <<i, j, names[adj[i][j]]>>) ELSE bonds)

\* lines 191-203: for i in range(0,N), for j in range(i+1,N), as a scan of the
\* flat index k = i*N + j that passes over the cells with j <= i
RECURSIVE add_bonds(_, _, _, _, _)
add_bonds(adj, n, names, k, bonds) ==
    IF k >= n * n THEN bonds
    ELSE LET i == k \div n
             j == k % n
         IN  add_bonds(adj, n, names, k + 1,
                 IF i < j /\ names[adj[i][j]] \in BondNames
                 THEN Append0(bonds, <<i, j, names[adj[i][j]]>>) ELSE bonds)

\* the bond types the bond loop looks up
BondsRead(adj, n) == {adj[c[1]][c[2]] : c \in {d \in Atoms(n) \X Atoms(n) : d[1] < d[2]}}

\* from_pymol_to_smile up to the RWMol it hands to from_mol_to_smile
from_pymol_to_smile(types, adj, n, words, names) ==
    IF \E a \in Atoms(n) : types[a] \notin DOMAIN words THEN [status |-> "IndexError"]
    ELSE IF \E a \in Atoms(n) : symbol2atom(words[types[a]]).status # "ok"
    THEN [status |-> (CHOOSE st \in {symbol2atom(words[types[a]]).status : a \in Atoms(n)} :
                          st # "ok")]
    ELSE IF \E tp \in BondsRead(adj, n) : tp \notin DOMAIN names
    THEN [status |-> "IndexError"]
    ELSE [status |-> "ok",
          atoms |-> add_atoms(types, n, words),
          bonds |-> add_bonds(adj, n, names, 0, EmptyList)]

SmileInit ==
    /\ DictIdle /\ MoleculeLoaded /\ GraphIdle /\ CollateIdle /\ SymbolIdle /\ RestIdle
    /\ atom_dict \in AtomDicts
    /\ bond_dict \in BondDicts
    /\ mol = None

FromPymolToSmile ==
    /\ op = "init"
    /\ mol' = from_pymol_to_smile(atom_type, bond_type, num_atom, atom_dict, bond_dict)
    /\ op' = "from_pymol_to_smile"
    /\ UNCHANGED <<dictVars, molVars, g, collateVars, symbolVars, atom_dict, bond_dict,
                   arg, ret>>

NextSmile == FromPymolToSmile

SpecSmile == SmileInit /\ [][NextSmile]_vars

\* the dictionaries cover the atom types and the bond types of the molecule
Covered ==
    /\ \A a \in Atoms(num_atom) : atom_type[a] \in DOMAIN atom_dict
    /\ \A a, b \in Atoms(num_atom) : bond_type[a][b] \in DOMAIN bond_dict

\* the bond matrix with every cell of the diagonal and the lower triangle set to v
UpperWith(v) ==
    [a \in Atoms(num_atom) |-> [b \in Atoms(num_atom) |->
        IF a < b THEN bond_type[a][b] ELSE v]]

\* C9: with dictionaries that cover the molecule, from_pymol_to_smile adds one
\* atom per atom_type entry in index order and a bond between i and j exactly
\* for the pairs i < j whose bond_type[i][j] decodes to SINGLE, DOUBLE, TRIPLE or
\* AROMATIC, of that order; NONE and every other name add no bond, and no value
\* of the lower triangle or the diagonal changes the structure built.
C9_UpperTriangleBonds ==
    (op = "from_pymol_to_smile" /\ Covered) =>
        /\ mol.status = "ok"
        /\ DOMAIN mol.atoms = Atoms(num_atom)
        /\ \A a \in Atoms(num_atom) :
               mol.atoms[a] = symbol2atom(atom_dict[atom_type[a]]).atom
        /\ Range0(mol.bonds) =
               {<<c[1], c[2], bond_dict[bond_type[c[1]][c[2]]]>> :
                   c \in {d \in Atoms(num_atom) \X Atoms(num_atom) :
                             d[1] < d[2] /\ bond_dict[bond_type[d[1]][d[2]]] \in BondNames}}
        /\ Len0(mol.bonds) = Cardinality(Range0(mol.bonds))
        /\ \A v \in DOMAIN bond_dict :
               from_pymol_to_smile(atom_type, UpperWith(v), num_atom, atom_dict, bond_dict)
                   = mol

\* a bond added from the upper triangle while the mirrored cell holds another value
C9_Witness ==
    /\ op = "from_pymol_to_smile"
    /\ Covered
    /\ Len0(mol.bonds) = 1
    /\ \E a, b \in Atoms(num_atom) :
           /\ a < b
           /\ bond_type[a][b] # bond_type[b][a]
           /\ bond_dict[bond_type[b][a]] \in BondNames
           /\ atom_type[a] # atom_type[b]

====
